---- MODULE Spec2Model ----
(***************************************************************************)
(* Model of the job-analytics dashboard: the analytics client and range    *)
(* helpers of lib/api.ts (getSummaryForRange, getBreakdownsForRange,       *)
(* getThisWeekAndLastWeekRanges, fetchWeekComparison) and the state and    *)
(* derivation hooks of app/page.tsx.                                       *)
(*                                                                         *)
(* Conventions.  null is the record Null.  A "YYYY-MM-DD" string is the    *)
(* triple <<y, m, d>> (fixed width, so string order is the lexicographic   *)
(* order of the triple) and the empty string is <<>>.  A list field that   *)
(* is missing (undefined) is UndefinedList, a missing map is UndefinedMap; *)
(* a Record<string, number> is a set of <<key, count>> pairs.  A Date is   *)
(* its local calendar fields in the runtime's time zone.                   *)
(***************************************************************************)
EXTENDS Integers, Sequences, FiniteSets, TLC

VARIABLES
    summary,        \* page.tsx useState: SummaryData | null
    weekly,         \* page.tsx useState: WeeklyData | null
    monthly,        \* page.tsx useState: MonthlyData | null
    selectedRange,  \* page.tsx useState: SelectedRange
    loading,        \* page.tsx useState
    rangeData,      \* page.tsx useState: RangeData | null
    usingRange,     \* page.tsx useState
    rangeLoading,   \* page.tsx useState
    rangeError,     \* page.tsx useState: string | null
    startDate,      \* page.tsx useState
    endDate,        \* page.tsx useState
    mountedAt,      \* the Date read when the page mounted (todayISO, yesterdayISO)
    initialFetch,   \* position of fetchAll: "pending" or "done"
    rangeFetch,     \* the fetchRange call handleApplyRange is awaiting, if any,
                    \* and whether Clear or a range card was used since
    lib,            \* the last call of a pure helper of lib/api.ts, with its result
    cmp             \* the running fetchWeekComparison call

pageVars == <<summary, weekly, monthly, selectedRange, loading, rangeData,
              usingRange, rangeLoading, rangeError, startDate, endDate,
              mountedAt, initialFetch, rangeFetch>>

vars == <<summary, weekly, monthly, selectedRange, loading, rangeData,
          usingRange, rangeLoading, rangeError, startDate, endDate,
          mountedAt, initialFetch, rangeFetch, lib, cmp>>

-----------------------------------------------------------------------------
(* Values *)

Null == [null |-> TRUE]

UndefinedList == <<<<"undefined", 0>>>>

UndefinedMap == {<<"undefined", 0>>}

EmptyString == <<>>

TimeRange == {"today", "yesterday", "thisWeek", "thisMonth"}

\* a || [] on a list field
OrEmptyList(l) == IF l = UndefinedList THEN <<>> ELSE l

-----------------------------------------------------------------------------
(* The JavaScript Date operations the code uses *)

IsLeapYear(y) == (y % 4 = 0 /\ y % 100 # 0) \/ y % 400 = 0

DaysInMonth(y, m) ==
    IF m = 2 THEN (IF IsLeapYear(y) THEN 29 ELSE 28)
    ELSE IF m \in {4, 6, 9, 11} THEN 30 ELSE 31

\* s1 < s2 for two "YYYY-MM-DD" strings (string comparison)
StrLess(a, b) ==
    \/ a[1] < b[1]
    \/ a[1] = b[1] /\ a[2] < b[2]
    \/ a[1] = b[1] /\ a[2] = b[2] /\ a[3] < b[3]

\* Time zones of the runtime: hours east of UTC, and the local interval in
\* which daylight saving time (one hour more) is in force, if any.
ZoneUTC == [name |-> "UTC", std |-> 0, dst |-> FALSE]

ZoneLagos == [name |-> "Africa/Lagos", std |-> 1, dst |-> FALSE]

ZoneNewYork == [name |-> "America/New_York", std |-> -5, dst |-> TRUE,
                dstFrom |-> <<2025, 3, 9>>, dstUntil |-> <<2025, 11, 2>>]

Zones == {ZoneUTC, ZoneLagos, ZoneNewYork}

\* Date.prototype.getTimezoneOffset, as hours east of UTC at a local time
UtcOffset(zone, date, hour) ==
    IF zone.dst /\ (~StrLess(date, zone.dstFrom)) /\
       (StrLess(date, zone.dstUntil) \/ (date = zone.dstUntil /\ hour < 1))
    THEN zone.std + 1
    ELSE zone.std

\* A Date: local calendar day, local hour of the day, time zone.
MakeDate(date, hour, zone) == [date |-> date, hour |-> hour, zone |-> zone]

\* Date.prototype.getDate
getDate(dt) == dt.date[3]

\* The calendar day <<y, m, n>> with n outside 1..DaysInMonth carried into
\* the neighbouring months, as Date.prototype.setDate does.
RECURSIVE CarryDay(_, _, _)
CarryDay(y, m, n) ==
    IF n < 1 THEN
        LET pm == IF m = 1 THEN 12 ELSE m - 1
            py == IF m = 1 THEN y - 1 ELSE y
        IN  CarryDay(py, pm, n + DaysInMonth(py, pm))
    ELSE IF n > DaysInMonth(y, m) THEN
        LET nm == IF m = 12 THEN 1 ELSE m + 1
            ny == IF m = 12 THEN y + 1 ELSE y
        IN  CarryDay(ny, nm, n - DaysInMonth(y, m))
    ELSE <<y, m, n>>

\* Date.prototype.setDate: day of the month in local time, local time of day kept
setDate(dt, n) == [dt EXCEPT !.date = CarryDay(dt.date[1], dt.date[2], n)]

\* Date.prototype.toISOString().slice(0, 10): the calendar day in UTC
toISODate(dt) ==
    LET utcHour == dt.hour - UtcOffset(dt.zone, dt.date, dt.hour)
        y == dt.date[1]
        m == dt.date[2]
        d == dt.date[3]
    IN  IF utcHour >= 24 THEN CarryDay(y, m, d + 1)
        ELSE IF utcHour < 0 THEN CarryDay(y, m, d - 1)
        ELSE dt.date

-----------------------------------------------------------------------------
(* Datasets *)

LocA == {<<"Lagos", 5>>, <<"Abuja", 2>>}

JobA == {<<"Engineer", 4>>, <<"Nurse", 3>>}

LocB == {<<"Remote", 1>>}

JobB == {<<"Driver", 1>>}

LocS == {<<"Kano", 9>>}

JobS == {<<"Teacher", 9>>}

\* One DailyBreakdown entry; every field of it differs from day to day.
DayEntry(date) ==
    [date |-> date,
     totalClicks |-> date[3],
     uniqueUrls |-> 1,
     topShortCodes |-> <<<<"day", date[3]>>>>,
     locationBreakdown |-> {<<"Lagos", date[3]>>},
     jobTitleBreakdown |-> {<<"Engineer", date[3]>>}]

DaysNone == <<>>

DaysEarly == <<DayEntry(<<2025, 12, 1>>)>>

DaysWeek == <<DayEntry(<<2025, 12, 1>>), DayEntry(<<2025, 12, 7>>),
              DayEntry(<<2025, 12, 8>>)>>

TopA == <<<<"job", 1>>>>

TopB == <<<<"job", 2>>, <<"job", 1>>>>

TopS == <<<<"job", 3>>>>

TopT == <<<<"job", 4>>, <<"job", 3>>>>

Rollup(top, days) ==
    [totalClicks |-> IF days = DaysWeek THEN 42 ELSE Len(days),
     uniqueUrls |-> Len(days),
     dailyBreakdown |-> days,
     topPerformers |-> top,
     locationBreakdown |->
        IF days = DaysWeek THEN LocA ELSE IF days = DaysEarly THEN LocB ELSE {},
     jobTitleBreakdown |->
        IF days = DaysWeek THEN JobA ELSE IF days = DaysEarly THEN JobB ELSE {}]

\* The WeeklyData / MonthlyData / RangeData values of the model
Rollups ==
    {Rollup(top, days) : top \in {UndefinedList, <<>>, TopA, TopB},
                         days \in {DaysNone, DaysEarly, DaysWeek}}

Summary(weekTop, monthTop, monthLoc, monthJob) ==
    [today |-> [clicks |-> 1, uniqueUrls |-> 1],
     yesterday |-> [clicks |-> 2, uniqueUrls |-> 1],
     thisWeek |-> [clicks |-> 30, uniqueUrls |-> 3, topPerformers |-> weekTop],
     thisMonth |-> [clicks |-> 40, uniqueUrls |-> 4, topPerformers |-> monthTop,
                    locationBreakdown |-> monthLoc,
                    jobTitleBreakdown |-> monthJob]]

\* The SummaryData values of the model
Summaries ==
    {Summary(wt, mt, mm[1], mm[2]) :
        wt \in {UndefinedList, <<>>, TopS},
        mt \in {UndefinedList, <<>>, TopT},
        mm \in {<<UndefinedMap, UndefinedMap>>, <<LocS, JobS>>}}

\* The datasets the remote service answers with in the page's session
ServedSummaries ==
    {Summary(TopS, TopT, LocS, JobS),
     Summary(<<>>, UndefinedList, UndefinedMap, UndefinedMap)}

ServedWeekly ==
    {Rollup(TopA, DaysWeek), Rollup(TopB, DaysEarly),
     Rollup(UndefinedList, DaysWeek)}

ServedMonthly == {Rollup(TopB, DaysWeek), Rollup(<<>>, DaysNone)}

ServedRanges == {Rollup(TopB, DaysEarly), Rollup(UndefinedList, DaysWeek)}

\* The instants at which the code reads the clock (new Date())
Clocks ==
    {MakeDate(<<2025, 12, 8>>, 12, ZoneUTC),
     MakeDate(<<2025, 12, 9>>, 12, ZoneLagos),
     MakeDate(<<2025, 12, 1>>, 19, ZoneNewYork)}

\* The instants at which the page mounts
MountClocks == {MakeDate(<<2025, 12, 7>>, 19, ZoneNewYork)}

-----------------------------------------------------------------------------
(* lib/api.ts: summary and breakdown helpers *)

\* getSummaryForRange returning null, not zero totals, for an absent summary
getSummaryForRangeNullTotals(s, range) ==
    IF s = Null THEN Null
    ELSE CASE range = "today" -> s.today
           [] range = "yesterday" -> s.yesterday
           [] range = "thisWeek" -> s.thisWeek
           [] range = "thisMonth" -> s.thisMonth

\* getSummaryForRange(summary, range)
getSummaryForRange(s, range) ==
    IF s = Null THEN [clicks |-> 0, uniqueUrls |-> 0]
    ELSE CASE range = "today" -> s.today
           [] range = "yesterday" -> s.yesterday
           [] range = "thisWeek" -> s.thisWeek
           [] range = "thisMonth" -> s.thisMonth

\* dailyBreakdown.map((d) => ({date: d.date, totalClicks: d.totalClicks}))
TrendPoints(days) ==
    [i \in 1..Len(days) |->
        [date |-> days[i].date, totalClicks |-> days[i].totalClicks]]

\* find by position: the first entry whatever its date
FindDayByPosition(days, targetDate) ==
    IF Len(days) = 0 THEN Null ELSE days[1]

\* dailyBreakdown.find((d) => d.date === targetDate): the first match, or Null
FindDay(days, targetDate) ==
    LET hits == {i \in 1..Len(days) : days[i].date = targetDate}
    IN  IF hits = {} THEN Null
        ELSE days[CHOOSE i \in hits : \A j \in hits : i <= j]

\* The target day getBreakdownsForRange computes for today / yesterday
ApiTargetDate(range, now) ==
    IF range = "today" THEN toISODate(now)
    ELSE toISODate(setDate(now, getDate(now) - 1))

\* The summary override applied to thisMonth alone
SummaryTopOverrideMonthOnly(top, s, range) ==
    IF s = Null THEN top
    ELSE IF range = "thisMonth" /\ s.thisMonth.topPerformers # UndefinedList
         THEN s.thisMonth.topPerformers
    ELSE top

\* The summary override applied to today and yesterday as well (with the
\* thisWeek list)
SummaryTopOverrideEveryRange(top, s, range) ==
    IF s = Null THEN top
    ELSE IF range = "thisMonth" /\ s.thisMonth.topPerformers # UndefinedList
         THEN s.thisMonth.topPerformers
    ELSE IF range # "thisMonth" /\ s.thisWeek.topPerformers # UndefinedList
         THEN s.thisWeek.topPerformers
    ELSE top

\* The summary override of getBreakdownsForRange: the list it ends with
SummaryTopOverride(top, s, range) ==
    IF s = Null THEN top
    ELSE IF range = "thisWeek" /\ s.thisWeek.topPerformers # UndefinedList
         THEN s.thisWeek.topPerformers
    ELSE IF range = "thisMonth" /\ s.thisMonth.topPerformers # UndefinedList
         THEN s.thisMonth.topPerformers
    ELSE top

\* getBreakdownsForRange(weekly, monthly, summary, range), called at `now`
getBreakdownsForRange(w, m, s, range, now) ==
    LET hasWeekly == w # Null
        hasMonthly == m # Null
        day == IF hasWeekly THEN FindDay(w.dailyBreakdown, ApiTargetDate(range, now))
               ELSE Null
        base ==
            IF range = "thisMonth" /\ hasMonthly THEN
                [locationBreakdown |-> m.locationBreakdown,
                 jobTitleBreakdown |-> m.jobTitleBreakdown,
                 topPerformers |-> m.topPerformers,
                 trendData |-> TrendPoints(m.dailyBreakdown)]
            ELSE IF hasWeekly THEN
                IF range \in {"today", "yesterday"} /\ day # Null THEN
                    [locationBreakdown |-> day.locationBreakdown,
                     jobTitleBreakdown |-> day.jobTitleBreakdown,
                     topPerformers |-> day.topShortCodes,
                     trendData |-> TrendPoints(w.dailyBreakdown)]
                ELSE
                    [locationBreakdown |-> w.locationBreakdown,
                     jobTitleBreakdown |-> w.jobTitleBreakdown,
                     topPerformers |-> w.topPerformers,
                     trendData |-> TrendPoints(w.dailyBreakdown)]
            ELSE
                [locationBreakdown |-> {},
                 jobTitleBreakdown |-> {},
                 topPerformers |-> <<>>,
                 trendData |-> <<>>]
    IN  [base EXCEPT !.topPerformers = SummaryTopOverride(@, s, range)]

-----------------------------------------------------------------------------
(* lib/api.ts: transport *)

\* What the network gives back for one request: no response at all, or an
\* HTTP response with its ok flag and a body that parses as JSON or not.
NetworkError == [net |-> "error"]

HttpResponse(ok, body) == [net |-> "response", ok |-> ok, body |-> body]

Unparsable == [json |-> FALSE]

Envelope(success, data) == [json |-> TRUE, success |-> success, data |-> data]

Responses(datasets) ==
    {NetworkError} \cup
    {HttpResponse(ok, body) :
        ok \in BOOLEAN,
        body \in {Unparsable} \cup
                 {Envelope(b, d) : b \in BOOLEAN, d \in datasets}}

Pending == [st |-> "pending"]

Rejected == [st |-> "rejected"]

Fulfilled(value) == [st |-> "fulfilled", value |-> value]

\* fetchJson without the res.ok check
fetchJsonAnyStatus(resp) ==
    IF resp.net = "error" THEN Rejected
    ELSE IF ~resp.body.json THEN Rejected
    ELSE Fulfilled(resp.body)

\* fetchJson (and fetchRange, which returns its promise): how the promise settles
fetchJson(resp) ==
    IF resp.net = "error" THEN Rejected
    ELSE IF ~resp.ok THEN Rejected
    ELSE IF ~resp.body.json THEN Rejected
    ELSE Fulfilled(resp.body)

-----------------------------------------------------------------------------
(* lib/api.ts: week-vs-week comparison helpers *)

\* formatDate(date)
formatDate(dt) == toISODate(dt)

\* getThisWeekAndLastWeekRanges(today)
getThisWeekAndLastWeekRanges(today) ==
    LET currentEnd == today
        currentStart == setDate(today, getDate(currentEnd) - 6)
        prevEnd == setDate(currentStart, getDate(currentStart) - 1)
        prevStart == setDate(prevEnd, getDate(prevEnd) - 6)
    IN  [current |-> [startDate |-> formatDate(currentStart),
                      endDate |-> formatDate(currentEnd)],
         previous |-> [startDate |-> formatDate(prevStart),
                       endDate |-> formatDate(prevEnd)]]

-----------------------------------------------------------------------------
(* app/page.tsx: derivation hooks *)

\* todayISO (memoised at mount)
todayISO == toISODate(mountedAt)

\* yesterdayISO (memoised at mount)
yesterdayISO == toISODate(setDate(mountedAt, getDate(mountedAt) - 1))

\* What the derivation hooks read
PageInputs ==
    [usingRange |-> usingRange, rangeData |-> rangeData, summary |-> summary,
     weekly |-> weekly, monthly |-> monthly, selectedRange |-> selectedRange,
     todayISO |-> todayISO, yesterdayISO |-> yesterdayISO]

\* weekly.dailyBreakdown.filter((d) => d.date === target)
FilterDays(days, target) == SelectSeq(days, LAMBDA d : d.date = target)

\* trendData without the custom-range branch
trendDataOfNoRangeBranch(p) ==
    IF p.weekly = Null /\ p.monthly = Null THEN <<>>
    ELSE IF p.selectedRange = "thisMonth" /\ p.monthly # Null
         THEN p.monthly.dailyBreakdown
    ELSE IF p.weekly # Null THEN p.weekly.dailyBreakdown
    ELSE <<>>

\* useMemo trendData
trendDataOf(p) ==
    IF p.usingRange /\ p.rangeData # Null THEN p.rangeData.dailyBreakdown
    ELSE IF p.weekly = Null /\ p.monthly = Null THEN <<>>
    ELSE IF p.selectedRange = "today" /\ p.weekly # Null
         THEN FilterDays(p.weekly.dailyBreakdown, p.todayISO)
    ELSE IF p.selectedRange = "yesterday" /\ p.weekly # Null
         THEN FilterDays(p.weekly.dailyBreakdown, p.yesterdayISO)
    ELSE IF p.selectedRange = "thisWeek" /\ p.weekly # Null
         THEN p.weekly.dailyBreakdown
    ELSE IF p.selectedRange = "thisMonth" /\ p.monthly # Null
         THEN p.monthly.dailyBreakdown
    ELSE IF p.selectedRange = "thisMonth" /\ p.weekly # Null
         THEN p.weekly.dailyBreakdown
    ELSE <<>>

\* totalClicksForSelectedRange reading summary before the custom range
totalClicksOfSummaryFirst(p) ==
    IF p.summary # Null THEN
        CASE p.selectedRange = "today" -> p.summary.today.clicks
          [] p.selectedRange = "yesterday" -> p.summary.yesterday.clicks
          [] p.selectedRange = "thisWeek" -> p.summary.thisWeek.clicks
          [] p.selectedRange = "thisMonth" -> p.summary.thisMonth.clicks
    ELSE IF p.usingRange /\ p.rangeData # Null THEN p.rangeData.totalClicks
    ELSE 0

\* totalClicksForSelectedRange taking the week's total from weekly
totalClicksOfWeeklyRollup(p) ==
    IF p.usingRange /\ p.rangeData # Null THEN p.rangeData.totalClicks
    ELSE IF p.summary = Null THEN 0
    ELSE CASE p.selectedRange = "today" -> p.summary.today.clicks
           [] p.selectedRange = "yesterday" -> p.summary.yesterday.clicks
           [] p.selectedRange = "thisWeek" ->
                IF p.weekly # Null THEN p.weekly.totalClicks
                ELSE p.summary.thisWeek.clicks
           [] p.selectedRange = "thisMonth" -> p.summary.thisMonth.clicks
           [] OTHER -> 0

\* useMemo totalClicksForSelectedRange
totalClicksOf(p) ==
    IF p.usingRange /\ p.rangeData # Null THEN p.rangeData.totalClicks
    ELSE IF p.summary = Null THEN 0
    ELSE CASE p.selectedRange = "today" -> p.summary.today.clicks
           [] p.selectedRange = "yesterday" -> p.summary.yesterday.clicks
           [] p.selectedRange = "thisWeek" -> p.summary.thisWeek.clicks
           [] p.selectedRange = "thisMonth" -> p.summary.thisMonth.clicks
           [] OTHER -> 0

\* useMemo topJobs
topJobsOf(p) ==
    IF p.usingRange /\ p.rangeData # Null
    THEN OrEmptyList(p.rangeData.topPerformers)
    ELSE IF p.summary = Null THEN <<>>
    ELSE IF p.selectedRange = "thisWeek"
         THEN OrEmptyList(p.summary.thisWeek.topPerformers)
    ELSE IF p.selectedRange = "thisMonth"
         THEN OrEmptyList(p.summary.thisMonth.topPerformers)
    ELSE IF p.weekly # Null /\ p.weekly.topPerformers # UndefinedList
         THEN p.weekly.topPerformers
    ELSE <<>>

\* The day entry the two breakdown hooks drill into, or Null
PageDay(p) ==
    IF p.selectedRange \in {"today", "yesterday"} /\ p.weekly # Null
    THEN FindDay(p.weekly.dailyBreakdown,
                 IF p.selectedRange = "today" THEN p.todayISO ELSE p.yesterdayISO)
    ELSE Null

\* useMemo locationBreakdown
locationBreakdownOf(p) ==
    IF p.usingRange /\ p.rangeData # Null THEN p.rangeData.locationBreakdown
    ELSE IF p.weekly = Null /\ p.monthly = Null THEN {}
    ELSE IF PageDay(p) # Null THEN PageDay(p).locationBreakdown
    ELSE IF p.selectedRange = "thisWeek" /\ p.weekly # Null
         THEN p.weekly.locationBreakdown
    ELSE IF p.selectedRange = "thisMonth" /\ p.monthly # Null
         THEN p.monthly.locationBreakdown
    ELSE IF p.selectedRange = "thisMonth" /\ p.summary # Null
            /\ p.summary.thisMonth.locationBreakdown # UndefinedMap
         THEN p.summary.thisMonth.locationBreakdown
    ELSE IF p.weekly # Null THEN p.weekly.locationBreakdown
    ELSE IF p.monthly # Null THEN p.monthly.locationBreakdown
    ELSE {}

\* useMemo jobCategoryBreakdown
jobCategoryBreakdownOf(p) ==
    IF p.usingRange /\ p.rangeData # Null THEN p.rangeData.jobTitleBreakdown
    ELSE IF p.weekly = Null /\ p.monthly = Null THEN {}
    ELSE IF PageDay(p) # Null THEN PageDay(p).jobTitleBreakdown
    ELSE IF p.selectedRange = "thisWeek" /\ p.weekly # Null
         THEN p.weekly.jobTitleBreakdown
    ELSE IF p.selectedRange = "thisMonth" /\ p.monthly # Null
         THEN p.monthly.jobTitleBreakdown
    ELSE IF p.selectedRange = "thisMonth" /\ p.summary # Null
            /\ p.summary.thisMonth.jobTitleBreakdown # UndefinedMap
         THEN p.summary.thisMonth.jobTitleBreakdown
    ELSE IF p.weekly # Null THEN p.weekly.jobTitleBreakdown
    ELSE IF p.monthly # Null THEN p.monthly.jobTitleBreakdown
    ELSE {}

trendData == trendDataOf(PageInputs)

totalClicksForSelectedRange == totalClicksOf(PageInputs)

topJobs == topJobsOf(PageInputs)

locationBreakdown == locationBreakdownOf(PageInputs)

jobCategoryBreakdown == jobCategoryBreakdownOf(PageInputs)

\* The dashboard section (cards, charts, table) is rendered
DashboardShown == ~loading /\ summary # Null /\ weekly # Null

\* SummaryCards: isActive of the card `key`, given the selectedRange prop
isActive(key) == selectedRange = key

\* The cards SummaryCards renders with the active style: none when the
\* dashboard section is not rendered
ActiveCards ==
    IF DashboardShown THEN {key \in TimeRange : isActive(key)} ELSE {}

-----------------------------------------------------------------------------
(* app/page.tsx: state and handlers *)

ErrorMessage(text) == [message |-> text]

NoFetch == [st |-> "none"]

\* The values the two <input type="date"> can hold
DateInputs == {EmptyString, <<2025, 12, 1>>, <<2025, 12, 10>>}

\* startDate > endDate (string comparison)
StartAfterEnd(start, end) == StrLess(end, start)

\* JSON of a response as fetchAll reads it: res.json() of any response,
\* whatever its status
ParsedBody(resp) == resp.body

\* json?.success ? json.data : the slot as it was
ApplyIfSuccess(slot, json) == IF json.success THEN json.data ELSE slot

\* useEffect fetchAll, from the moment Promise.all settles to the end of
\* the finally block
FetchAllSettles(rs, rw, rm) ==
    /\ initialFetch = "pending"
    /\ LET transportFailed == \E r \in {rs, rw, rm} : r.net = "error"
           parseFailed == \E r \in {rs, rw, rm} : ~ParsedBody(r).json
       IN  IF transportFailed \/ parseFailed
           THEN UNCHANGED <<summary, weekly, monthly>>
           ELSE /\ summary' = ApplyIfSuccess(summary, ParsedBody(rs))
                /\ weekly' = ApplyIfSuccess(weekly, ParsedBody(rw))
                /\ monthly' = ApplyIfSuccess(monthly, ParsedBody(rm))
    /\ loading' = FALSE
    /\ initialFetch' = "done"
    /\ UNCHANGED <<selectedRange, rangeData, usingRange, rangeLoading,
                   rangeError, startDate, endDate, mountedAt, rangeFetch>>

\* onChange of the start date input
SetStartDate(d) ==
    /\ startDate' = d
    /\ UNCHANGED <<summary, weekly, monthly, selectedRange, loading, rangeData,
                   usingRange, rangeLoading, rangeError, endDate, mountedAt,
                   initialFetch, rangeFetch>>

\* onChange of the end date input
SetEndDate(d) ==
    /\ endDate' = d
    /\ UNCHANGED <<summary, weekly, monthly, selectedRange, loading, rangeData,
                   usingRange, rangeLoading, rangeError, startDate, mountedAt,
                   initialFetch, rangeFetch>>

\* The validation without the ordering check
ApplyValidationPresenceOnly(start, end) ==
    IF start = EmptyString \/ end = EmptyString
    THEN ErrorMessage("Please select both start and end dates.")
    ELSE Null

\* The validation of handleApplyRange: the message it fails with, or Null
ApplyValidation(start, end) ==
    IF start = EmptyString \/ end = EmptyString
    THEN ErrorMessage("Please select both start and end dates.")
    ELSE IF StartAfterEnd(start, end)
    THEN ErrorMessage("Start date cannot be after end date.")
    ELSE Null

\* handleApplyRange up to its await (the button is disabled while rangeLoading)
HandleApplyRange ==
    /\ ~rangeLoading
    /\ LET failure == ApplyValidation(startDate, endDate)
       IN  IF failure # Null
           THEN /\ rangeError' = failure
                /\ UNCHANGED <<rangeLoading, rangeFetch>>
           ELSE /\ rangeError' = Null
                /\ rangeLoading' = TRUE
                /\ rangeFetch' = [st |-> "inflight", startDate |-> startDate,
                                  endDate |-> endDate, superseded |-> FALSE]
    /\ UNCHANGED <<summary, weekly, monthly, selectedRange, loading, rangeData,
                   usingRange, startDate, endDate, mountedAt, initialFetch>>

\* handleApplyRange without the finally block: rangeLoading is lowered on the
\* success path only
RangeFetchSettlesNoFinally(resp) ==
    /\ rangeFetch.st = "inflight"
    /\ LET res == fetchJson(resp)
       IN  IF res.st = "rejected"
           THEN /\ rangeError' =
                       ErrorMessage("Could not load range data. Please try again.")
                /\ usingRange' = FALSE
                /\ rangeData' = Null
                /\ UNCHANGED rangeLoading
           ELSE IF ~res.value.success
           THEN /\ rangeError' = ErrorMessage("Range request failed.")
                /\ usingRange' = FALSE
                /\ rangeData' = Null
                /\ UNCHANGED rangeLoading
           ELSE /\ rangeData' = res.value.data
                /\ usingRange' = TRUE
                /\ rangeLoading' = FALSE
                /\ UNCHANGED rangeError
    /\ rangeFetch' = NoFetch
    /\ UNCHANGED <<summary, weekly, monthly, selectedRange, loading, startDate,
                   endDate, mountedAt, initialFetch>>

\* handleApplyRange from the moment fetchRange settles to the end of finally
RangeFetchSettles(resp) ==
    /\ rangeFetch.st = "inflight"
    /\ LET res == fetchJson(resp)
       IN  IF res.st = "rejected"
           THEN /\ rangeError' =
                       ErrorMessage("Could not load range data. Please try again.")
                /\ usingRange' = FALSE
                /\ rangeData' = Null
           ELSE IF ~res.value.success
           THEN /\ rangeError' = ErrorMessage("Range request failed.")
                /\ usingRange' = FALSE
                /\ rangeData' = Null
           ELSE /\ rangeData' = res.value.data
                /\ usingRange' = TRUE
                /\ UNCHANGED rangeError
    /\ rangeLoading' = FALSE
    /\ rangeFetch' = NoFetch
    /\ UNCHANGED <<summary, weekly, monthly, selectedRange, loading, startDate,
                   endDate, mountedAt, initialFetch>>

\* The awaited fetchRange call after the user acted on the custom-range slot
\* (Clear or a range card) while handleApplyRange is suspended at its await:
\* the call goes on, and it is recorded that the slot was written since
Superseded(f) ==
    IF f.st = "inflight" THEN [f EXCEPT !.superseded = TRUE] ELSE f

\* handleClearRange going back to the default range card
HandleClearRangeResetsSelection ==
    /\ usingRange
    /\ usingRange' = FALSE
    /\ rangeData' = Null
    /\ rangeError' = Null
    /\ selectedRange' = "thisWeek"
    /\ rangeFetch' = Superseded(rangeFetch)
    /\ UNCHANGED <<summary, weekly, monthly, loading, rangeLoading, startDate,
                   endDate, mountedAt, initialFetch>>

\* handleClearRange dropping the dataset and the message only
HandleClearRangeDatasetOnly ==
    /\ usingRange
    /\ rangeData # Null
    /\ rangeData' = Null
    /\ rangeError' = Null
    /\ rangeFetch' = Superseded(rangeFetch)
    /\ UNCHANGED <<summary, weekly, monthly, selectedRange, loading, usingRange,
                   rangeLoading, startDate, endDate, mountedAt, initialFetch>>

\* handleClearRange (the Clear button is rendered while usingRange)
HandleClearRange ==
    /\ usingRange
    /\ usingRange' = FALSE
    /\ rangeData' = Null
    /\ rangeError' = Null
    /\ rangeFetch' = Superseded(rangeFetch)
    /\ UNCHANGED <<summary, weekly, monthly, selectedRange, loading,
                   rangeLoading, startDate, endDate, mountedAt, initialFetch>>

\* onSelectRange keeping the custom range: only the selection changes
OnSelectRangeKeepsRange(r) ==
    /\ DashboardShown
    /\ selectedRange' = r
    /\ rangeFetch' = Superseded(rangeFetch)
    /\ UNCHANGED <<summary, weekly, monthly, loading, rangeData, usingRange,
                   rangeLoading, rangeError, startDate, endDate, mountedAt,
                   initialFetch>>

\* onSelectRange of SummaryCards (rendered with the dashboard section)
OnSelectRange(r) ==
    /\ DashboardShown
    /\ usingRange' = FALSE
    /\ rangeData' = Null
    /\ selectedRange' = r
    /\ rangeFetch' = Superseded(rangeFetch)
    /\ UNCHANGED <<summary, weekly, monthly, loading, rangeLoading, rangeError,
                   startDate, endDate, mountedAt, initialFetch>>

-----------------------------------------------------------------------------
(* lib/api.ts called as a library *)

NoCall == [fn |-> "none"]

\* The summary or rollup argument of a helper: a dataset or null
SummaryArgs == Summaries \cup {Null}

RollupArgs == Rollups \cup {Null}

CallGetSummaryForRange(s, range) ==
    lib' = [fn |-> "getSummaryForRange", summary |-> s, range |-> range,
            result |-> getSummaryForRange(s, range)]

CallGetBreakdownsForRange(w, m, s, range, now) ==
    lib' = [fn |-> "getBreakdownsForRange", weekly |-> w, monthly |-> m,
            summary |-> s, range |-> range, now |-> now,
            result |-> getBreakdownsForRange(w, m, s, range, now)]

\* The reference instants getThisWeekAndLastWeekRanges is called with:
\* NumRefDays consecutive local days from 2025-10-20 on, at three hours of
\* the day, in each time zone.
NumRefDays == 90

RefDates == {CarryDay(2025, 10, 20 + k) : k \in 0..(NumRefDays - 1)}

RefHours == {0, 12, 19}

RefInstants ==
    {MakeDate(date, hour, zone) : date \in RefDates, hour \in RefHours,
                                  zone \in Zones}

CallGetThisWeekAndLastWeekRanges(today) ==
    lib' = [fn |-> "getThisWeekAndLastWeekRanges", today |-> today,
            result |-> getThisWeekAndLastWeekRanges(today)]

\* fetchWeekComparison up to its await: both fetchRange calls are issued
WeekComparisonCall(now) ==
    /\ cmp.pc = "idle"
    /\ cmp' = [pc |-> "awaiting",
               ranges |-> getThisWeekAndLastWeekRanges(now),
               current |-> Pending,
               previous |-> Pending,
               result |-> Null]

\* One of the two fetchRange promises settles
WeekComparisonLegSettles(leg, resp) ==
    /\ cmp.pc # "idle"
    /\ cmp[leg] = Pending
    /\ cmp' = [cmp EXCEPT ![leg] = fetchJson(resp)]

\* fetchWeekComparison failing only when both legs report success = false
WeekComparisonResumesBothFailed ==
    /\ cmp.pc = "awaiting"
    /\ \/ /\ Rejected \in {cmp.current, cmp.previous}
          /\ cmp' = [cmp EXCEPT !.pc = "thrown"]
       \/ /\ cmp.current.st = "fulfilled"
          /\ cmp.previous.st = "fulfilled"
          /\ IF ~cmp.current.value.success /\ ~cmp.previous.value.success
             THEN cmp' = [cmp EXCEPT !.pc = "thrown"]
             ELSE cmp' = [cmp EXCEPT !.pc = "returned",
                                     !.result = [current |-> cmp.current.value.data,
                                                 previous |-> cmp.previous.value.data]]

\* fetchWeekComparison after its await: Promise.all rejects with the first
\* rejection and is fulfilled once both legs are
WeekComparisonResumes ==
    /\ cmp.pc = "awaiting"
    /\ \/ /\ Rejected \in {cmp.current, cmp.previous}
          /\ cmp' = [cmp EXCEPT !.pc = "thrown"]
       \/ /\ cmp.current.st = "fulfilled"
          /\ cmp.previous.st = "fulfilled"
          /\ IF ~cmp.current.value.success \/ ~cmp.previous.value.success
             THEN cmp' = [cmp EXCEPT !.pc = "thrown"]
             ELSE cmp' = [cmp EXCEPT !.pc = "returned",
                                     !.result = [current |-> cmp.current.value.data,
                                                 previous |-> cmp.previous.value.data]]

-----------------------------------------------------------------------------
(* Specification *)

Init ==
    /\ summary = Null
    /\ weekly = Null
    /\ monthly = Null
    /\ selectedRange = "thisWeek"
    /\ loading = TRUE
    /\ rangeData = Null
    /\ usingRange = FALSE
    /\ rangeLoading = FALSE
    /\ rangeError = Null
    /\ startDate = EmptyString
    /\ endDate = EmptyString
    /\ mountedAt \in MountClocks
    /\ initialFetch = "pending"
    /\ rangeFetch = NoFetch
    /\ lib = NoCall
    /\ cmp = [pc |-> "idle"]

\* No helper of lib/api.ts has been called as a library
LibraryIdle == lib = NoCall /\ cmp.pc = "idle"

\* The page is as it was when it mounted
PageIdle ==
    /\ initialFetch = "pending"
    /\ rangeFetch = NoFetch
    /\ rangeError = Null
    /\ startDate = EmptyString
    /\ endDate = EmptyString
    /\ rangeData = Null
    /\ ~usingRange

\* A step of the page
PageStep ==
    /\ LibraryIdle
    /\ \/ \E rs \in Responses(ServedSummaries), rw \in Responses(ServedWeekly),
             rm \in Responses(ServedMonthly) :
            FetchAllSettles(rs, rw, rm)
       \/ \E d \in DateInputs : SetStartDate(d)
       \/ \E d \in DateInputs : SetEndDate(d)
       \/ HandleApplyRange
       \/ \E resp \in Responses(ServedRanges) : RangeFetchSettles(resp)
       \/ HandleClearRange
       \/ \E r \in TimeRange : OnSelectRange(r)
    /\ UNCHANGED <<lib, cmp>>

\* A call of a pure helper of lib/api.ts (one call per behaviour)
LibraryStep ==
    /\ PageIdle
    /\ LibraryIdle
    /\ \/ \E s \in SummaryArgs, range \in TimeRange :
            CallGetSummaryForRange(s, range)
       \/ \E w, m \in RollupArgs, s \in SummaryArgs, range \in TimeRange,
             now \in Clocks :
            CallGetBreakdownsForRange(w, m, s, range, now)
       \/ \E today \in RefInstants : CallGetThisWeekAndLastWeekRanges(today)
    /\ UNCHANGED <<pageVars, cmp>>

\* A step of a fetchWeekComparison call
ComparisonStep ==
    /\ PageIdle
    /\ lib = NoCall
    /\ \/ \E now \in Clocks : WeekComparisonCall(now)
       \/ \E leg \in {"current", "previous"}, resp \in Responses(ServedRanges) :
            WeekComparisonLegSettles(leg, resp)
       \/ WeekComparisonResumes
    /\ UNCHANGED <<pageVars, lib>>

Next == PageStep \/ LibraryStep \/ ComparisonStep

Spec == Init /\ [][Next]_vars

-----------------------------------------------------------------------------
(* Properties *)

\* The page resolves from the custom-range dataset
CustomActive == usingRange /\ rangeData # Null

\* A list that is present and has at least one element
NonEmptyList(l) == l # UndefinedList /\ l # <<>>

IsBreakdownsCall == lib.fn = "getBreakdownsForRange"

\* Days from 2024-12-31 to a calendar day of 2025 or later
RECURSIVE DaysBeforeYear(_)
DaysBeforeYear(y) ==
    IF y <= 2025 THEN 0
    ELSE DaysBeforeYear(y - 1) + (IF IsLeapYear(y - 1) THEN 366 ELSE 365)

RECURSIVE DaysBeforeMonth(_, _)
DaysBeforeMonth(y, m) ==
    IF m <= 1 THEN 0 ELSE DaysBeforeMonth(y, m - 1) + DaysInMonth(y, m - 1)

DayNumber(date) ==
    DaysBeforeYear(date[1]) + DaysBeforeMonth(date[1], date[2]) + date[3]

EmptyBreakdowns ==
    [locationBreakdown |-> {}, jobTitleBreakdown |-> {},
     topPerformers |-> <<>>, trendData |-> <<>>]

\* C1: with summary, weekly, monthly and the custom-range dataset all absent,
\* every selected range resolves to totals {0, 0}, an empty top-performer
\* list, empty location and job-title maps and an empty trend series, in
\* getSummaryForRange, getBreakdownsForRange and the page's hooks.
C1_AllAbsentResolvesEmpty ==
    /\ (lib.fn = "getSummaryForRange" /\ lib.summary = Null)
         => lib.result = [clicks |-> 0, uniqueUrls |-> 0]
    /\ (IsBreakdownsCall /\ lib.summary = Null /\ lib.weekly = Null
          /\ lib.monthly = Null)
         => lib.result = EmptyBreakdowns
    /\ (summary = Null /\ weekly = Null /\ monthly = Null /\ rangeData = Null)
         => \A r \in TimeRange :
              LET p == [PageInputs EXCEPT !.selectedRange = r]
              IN  /\ totalClicksOf(p) = 0
                  /\ topJobsOf(p) = <<>>
                  /\ locationBreakdownOf(p) = {}
                  /\ jobCategoryBreakdownOf(p) = {}
                  /\ trendDataOf(p) = <<>>

C1_Witness ==
    /\ lib.fn = "getSummaryForRange"
    /\ lib.summary = Null
    /\ lib.range = "yesterday"
    /\ lib.result.clicks = 0

\* C2: for thisMonth with monthly and weekly present and the custom range
\* inactive, the location and job-title breakdowns are monthly's, and the
\* top-performer list differs from monthly.topPerformers only when summary
\* carries a non-empty thisMonth list (getBreakdownsForRange and the page).
C2_MonthlyPrecedence ==
    /\ (IsBreakdownsCall /\ lib.range = "thisMonth" /\ lib.monthly # Null
          /\ lib.weekly # Null)
         => /\ lib.result.locationBreakdown = lib.monthly.locationBreakdown
            /\ lib.result.jobTitleBreakdown = lib.monthly.jobTitleBreakdown
            /\ (lib.result.topPerformers # lib.monthly.topPerformers)
                 => /\ lib.summary # Null
                    /\ NonEmptyList(lib.summary.thisMonth.topPerformers)
    /\ (selectedRange = "thisMonth" /\ monthly # Null /\ weekly # Null
          /\ ~CustomActive)
         => /\ locationBreakdown = monthly.locationBreakdown
            /\ jobCategoryBreakdown = monthly.jobTitleBreakdown
            /\ (topJobs # OrEmptyList(monthly.topPerformers))
                 => /\ summary # Null
                    /\ NonEmptyList(summary.thisMonth.topPerformers)

\* The entry of a daily breakdown dated `date` (dates are unique in it), or
\* Null when it has none
EntryDated(days, date) ==
    IF \E i \in 1..Len(days) : days[i].date = date
    THEN days[CHOOSE i \in 1..Len(days) : days[i].date = date]
    ELSE Null

\* The entry of the call's weekly dated the computed target day, or Null
ApiDay ==
    EntryDated(lib.weekly.dailyBreakdown, ApiTargetDate(lib.range, lib.now))

\* The entry of the page's weekly dated the computed target day, or Null
PageTargetDay ==
    EntryDated(weekly.dailyBreakdown,
               IF selectedRange = "today" THEN todayISO ELSE yesterdayISO)

\* C3: for today or yesterday with weekly present and an entry of
\* weekly.dailyBreakdown dated the computed target day, the location
\* breakdown, job-title breakdown and top-performer list are exactly that
\* entry's, for any summary and monthly (getBreakdownsForRange and the page,
\* custom range inactive).
C3_DrillDownToMatchingDay ==
    /\ (IsBreakdownsCall /\ lib.range \in {"today", "yesterday"}
          /\ lib.weekly # Null)
         => (ApiDay # Null
               => /\ lib.result.locationBreakdown = ApiDay.locationBreakdown
                  /\ lib.result.jobTitleBreakdown = ApiDay.jobTitleBreakdown
                  /\ lib.result.topPerformers = ApiDay.topShortCodes)
    /\ (selectedRange \in {"today", "yesterday"} /\ weekly # Null
          /\ ~CustomActive)
         => (PageTargetDay # Null
               => /\ locationBreakdown = PageTargetDay.locationBreakdown
                  /\ jobCategoryBreakdown = PageTargetDay.jobTitleBreakdown
                  /\ topJobs = PageTargetDay.topShortCodes)

C4_ApiPart ==
    (IsBreakdownsCall /\ lib.range \in {"today", "yesterday"}
       /\ lib.weekly # Null)
      => (ApiDay = Null
            => /\ lib.result.locationBreakdown = lib.weekly.locationBreakdown
               /\ lib.result.jobTitleBreakdown = lib.weekly.jobTitleBreakdown
               /\ lib.result.topPerformers = lib.weekly.topPerformers)

C4_PageResolvesWeekLevel ==
    /\ locationBreakdown = weekly.locationBreakdown
    /\ jobCategoryBreakdown = weekly.jobTitleBreakdown
    /\ topJobs = OrEmptyList(weekly.topPerformers)

\* C4 (as stated): for today or yesterday with weekly present and no entry
\* of weekly.dailyBreakdown dated the target day, the location breakdown,
\* job-title breakdown and top-performer list are weekly's week-level ones,
\* for any summary and monthly, whatever else the page holds.
C4_NoMatchKeepsWeekLevel_AsStated ==
    /\ C4_ApiPart
    /\ (selectedRange \in {"today", "yesterday"} /\ weekly # Null)
         => (PageTargetDay = Null => C4_PageResolvesWeekLevel)

\* C4 (amended): the same, on the page while the custom range is inactive
\* (a weekly without topPerformers resolving to the empty list there); in
\* getBreakdownsForRange for every summary and monthly, null included.
C4_NoMatchKeepsWeekLevel ==
    /\ C4_ApiPart
    /\ (selectedRange \in {"today", "yesterday"} /\ weekly # Null
          /\ ~CustomActive)
         => (PageTargetDay = Null => C4_PageResolvesWeekLevel)

C4_Witness ==
    /\ selectedRange = "yesterday"
    /\ ~CustomActive
    /\ weekly # Null
    /\ monthly # Null
    /\ PageTargetDay = Null
    /\ weekly.dailyBreakdown # <<>>
    /\ topJobs = TopB
    /\ locationBreakdown = LocB

C5_ApiPart ==
    (IsBreakdownsCall /\ lib.range = "thisWeek" /\ lib.summary # Null)
      => (NonEmptyList(lib.summary.thisWeek.topPerformers)
            => lib.result.topPerformers = lib.summary.thisWeek.topPerformers)

\* C5 (as stated): for thisWeek, whenever summary is present with a
\* non-empty thisWeek.topPerformers, the resolved top-performer list is that
\* list, whatever else is held.
C5_SummaryWeekOverride_AsStated ==
    /\ C5_ApiPart
    /\ (selectedRange = "thisWeek" /\ summary # Null)
         => (NonEmptyList(summary.thisWeek.topPerformers)
               => topJobs = summary.thisWeek.topPerformers)

\* C5 (amended): the same, on the page while the custom range is inactive;
\* in getBreakdownsForRange for every weekly and monthly, null included.
C5_SummaryWeekOverride ==
    /\ C5_ApiPart
    /\ (selectedRange = "thisWeek" /\ summary # Null /\ ~CustomActive)
         => (NonEmptyList(summary.thisWeek.topPerformers)
               => topJobs = summary.thisWeek.topPerformers)

C5_Witness ==
    /\ IsBreakdownsCall
    /\ lib.range = "thisWeek"
    /\ lib.summary # Null
    /\ lib.weekly # Null
    /\ lib.weekly.topPerformers = TopA
    /\ lib.summary.thisWeek.topPerformers = TopS
    /\ lib.result.topPerformers = TopS

\* C6: while the custom range is active with dataset R, the resolved total
\* clicks are R.totalClicks for every selected range and every content or
\* absence of summary, weekly and monthly.
C6_CustomRangeTotalClicks ==
    CustomActive =>
        /\ totalClicksForSelectedRange = rangeData.totalClicks
        /\ \A r \in TimeRange, s \in ServedSummaries \cup {Null},
              w \in ServedWeekly \cup {Null}, m \in ServedMonthly \cup {Null} :
             totalClicksOf([usingRange |-> usingRange, rangeData |-> rangeData,
                            summary |-> s, weekly |-> w, monthly |-> m,
                            selectedRange |-> r, todayISO |-> todayISO,
                            yesterdayISO |-> yesterdayISO])
               = rangeData.totalClicks

C6_Witness ==
    /\ CustomActive
    /\ summary # Null
    /\ selectedRange = "thisMonth"
    /\ rangeData.totalClicks # summary.thisMonth.clicks
    /\ totalClicksForSelectedRange = 42

\* C7: while the custom range is active, the location breakdown, job-title
\* breakdown, top-performer list and trend series are those of the
\* custom-range dataset, and states differing only in summary, weekly,
\* monthly or selectedRange resolve to the same values.
C7_CustomRangeWholesale ==
    CustomActive =>
        /\ locationBreakdown = rangeData.locationBreakdown
        /\ jobCategoryBreakdown = rangeData.jobTitleBreakdown
        /\ topJobs = OrEmptyList(rangeData.topPerformers)
        /\ trendData = rangeData.dailyBreakdown
        /\ \A r \in TimeRange, s \in ServedSummaries \cup {Null},
              w \in ServedWeekly \cup {Null}, m \in ServedMonthly \cup {Null} :
             LET p == [usingRange |-> usingRange, rangeData |-> rangeData,
                       summary |-> s, weekly |-> w, monthly |-> m,
                       selectedRange |-> r, todayISO |-> todayISO,
                       yesterdayISO |-> yesterdayISO]
             IN  /\ locationBreakdownOf(p) = rangeData.locationBreakdown
                 /\ jobCategoryBreakdownOf(p) = rangeData.jobTitleBreakdown
                 /\ topJobsOf(p) = OrEmptyList(rangeData.topPerformers)
                 /\ trendDataOf(p) = rangeData.dailyBreakdown

C7_Witness ==
    /\ CustomActive
    /\ selectedRange = "today"
    /\ weekly # Null
    /\ PageTargetDay # Null
    /\ monthly # Null
    /\ summary # Null
    /\ trendData = DaysEarly
    /\ topJobs = TopB
    /\ locationBreakdown = LocB

IsWeekRangesCall == lib.fn = "getThisWeekAndLastWeekRanges"

\* C8: for every reference day d, getThisWeekAndLastWeekRanges returns
\* current = [d-6, d] and previous = [d-13, d-7] (two adjacent windows of
\* exactly 7 days); for d = 2025-12-08 that is current
\* 2025-12-02..2025-12-08 and previous 2025-11-25..2025-12-01.
C8_RollingWeekWindows ==
    IsWeekRangesCall =>
        LET d == DayNumber(formatDate(lib.today))
            cur == lib.result.current
            prev == lib.result.previous
        IN  /\ DayNumber(cur.endDate) = d
            /\ DayNumber(cur.startDate) = d - 6
            /\ DayNumber(prev.endDate) = d - 7
            /\ DayNumber(prev.startDate) = d - 13
            /\ (formatDate(lib.today) = <<2025, 12, 8>>)
                 => /\ cur = [startDate |-> <<2025, 12, 2>>,
                              endDate |-> <<2025, 12, 8>>]
                    /\ prev = [startDate |-> <<2025, 11, 25>>,
                               endDate |-> <<2025, 12, 1>>]

\* A leg of the comparison that did not succeed with success = true
LegFailed(leg) ==
    leg = Rejected \/ (leg.st = "fulfilled" /\ ~leg.value.success)

LegSucceeded(leg) == leg.st = "fulfilled" /\ leg.value.success

\* C9: fetchWeekComparison returns {current, previous} only when both range
\* fetches were fulfilled with success = true; once either leg has rejected
\* or reported success = false it never returns and exposes no data,
\* whichever leg settles first.
C9_ComparisonAllOrNothing ==
    cmp.pc # "idle" =>
        /\ cmp.pc = "returned"
             => /\ LegSucceeded(cmp.current)
                /\ LegSucceeded(cmp.previous)
                /\ cmp.result = [current |-> cmp.current.value.data,
                                 previous |-> cmp.previous.value.data]
        /\ (LegFailed(cmp.current) \/ LegFailed(cmp.previous))
             => cmp.pc \in {"awaiting", "thrown"}
        /\ cmp.pc # "returned" => cmp.result = Null

C9_Witness ==
    /\ cmp.pc = "thrown"
    /\ LegSucceeded(cmp.current)
    /\ cmp.previous.st = "fulfilled"
    /\ ~cmp.previous.value.success
    /\ cmp.result = Null

\* The range the user asks for is unusable: a date is missing or the start
\* day is later than the end day
InvalidRange(start, end) ==
    \/ start = EmptyString
    \/ end = EmptyString
    \/ DayNumber(start) > DayNumber(end)

\* C10: applying a custom range with startDate missing, endDate missing or
\* startDate later than endDate sets an error message and issues no network
\* call: no range fetch is in flight after that step.
C10_InvalidRangeFailsLocally ==
    [][(HandleApplyRange /\ InvalidRange(startDate, endDate))
         => /\ rangeError' # Null
            /\ rangeFetch' = NoFetch
            /\ ~rangeLoading'
            /\ UNCHANGED <<rangeData, usingRange>>]_vars

C10_Witness ==
    /\ startDate = <<2025, 12, 10>>
    /\ endDate = <<2025, 12, 1>>
    /\ rangeError = ErrorMessage("Start date cannot be after end date.")
    /\ rangeFetch = NoFetch
    /\ ~rangeLoading

\* A response that counts as a success: an HTTP response with a 2xx status
\* whose body parses and carries success = true
Succeeded(resp) ==
    /\ resp.net = "response"
    /\ resp.ok
    /\ resp.body.json
    /\ resp.body.success

\* A request that failed: no response, a non-2xx status, a body that does
\* not parse, or an envelope with success = false
FetchFailed(resp) == ~Succeeded(resp)

\* C11: a custom-range fetch that fails (transport error, non-2xx status,
\* unparsable body or success = false) leaves the page Inactive, usingRange
\* false and no custom-range dataset, with a non-empty error message set.
C11_FailedRangeFetchLeavesInactive ==
    [][\A resp \in Responses(ServedRanges) :
         (RangeFetchSettles(resp) /\ FetchFailed(resp))
           => /\ ~usingRange'
              /\ rangeData' = Null
              /\ rangeError' # Null
              /\ rangeError'.message # ""]_vars

C11_Witness ==
    /\ rangeFetch = NoFetch
    /\ ~rangeLoading
    /\ ~usingRange
    /\ rangeData = Null
    /\ startDate = <<2025, 12, 1>>
    /\ endDate = <<2025, 12, 10>>
    /\ rangeError = ErrorMessage("Range request failed.")

\* C12: usingRange turns true only in the step where a fetch for a range the
\* user supplied with start <= end settles successfully; and from Active
\* every Clear and every click on a range card leaves usingRange false and
\* the custom-range dataset cleared.
C12_CustomRangeLifecycle ==
    [][/\ (~usingRange /\ usingRange')
            => /\ rangeFetch.st = "inflight"
               /\ ~InvalidRange(rangeFetch.startDate, rangeFetch.endDate)
               /\ \E resp \in Responses(ServedRanges) :
                    Succeeded(resp) /\ RangeFetchSettles(resp)
       /\ (usingRange /\ (HandleClearRange \/ \E r \in TimeRange : OnSelectRange(r)))
            => /\ ~usingRange'
               /\ rangeData' = Null]_vars

C12_Witness ==
    /\ rangeFetch.st = "inflight"
    /\ rangeFetch.superseded
    /\ ~InvalidRange(rangeFetch.startDate, rangeFetch.endDate)
    /\ selectedRange = "thisMonth"
    /\ ~usingRange
    /\ rangeData = Null

\* An initial fetch that failed at transport level or returned a body that
\* does not parse
InitialBroken(resp) == resp.net = "error" \/ ~resp.body.json

\* C13: when one of the three initial fetches fails at transport level or
\* returns an unparsable body, each of the other two that succeeded with
\* success = true is still applied to its own slot.
C13_InitialFetchesIndependent ==
    [][(initialFetch = "pending" /\ initialFetch' = "done")
         => \A rs \in Responses(ServedSummaries), rw \in Responses(ServedWeekly),
               rm \in Responses(ServedMonthly) :
              (/\ FetchAllSettles(rs, rw, rm)
               /\ \E r \in {rs, rw, rm} : InitialBroken(r))
                => /\ Succeeded(rs) => summary' = rs.body.data
                   /\ Succeeded(rw) => weekly' = rw.body.data
                   /\ Succeeded(rm) => monthly' = rm.body.data]_vars

\* A response the client must treat as a failure whatever its body holds: a
\* non-2xx status, or an envelope with success = false
Refused(resp) ==
    /\ resp.net = "response"
    /\ \/ ~resp.ok
       \/ resp.body.json /\ ~resp.body.success

\* C14: no dataset slot (summary, weekly, monthly, custom range) is populated
\* from a response with a non-2xx status or with success = false.
C14_NoSlotFromFailedResponse ==
    [][/\ (initialFetch = "pending" /\ initialFetch' = "done")
            => \A rs \in Responses(ServedSummaries),
                  rw \in Responses(ServedWeekly),
                  rm \in Responses(ServedMonthly) :
                 FetchAllSettles(rs, rw, rm)
                   => /\ Refused(rs) => summary' = summary
                      /\ Refused(rw) => weekly' = weekly
                      /\ Refused(rm) => monthly' = monthly
       /\ \A resp \in Responses(ServedRanges) :
            (RangeFetchSettles(resp) /\ Refused(resp)) => rangeData' = Null]_vars

\* The trend points (date and total clicks, in order) of a daily breakdown
TrendSeries(days) ==
    [i \in 1..Len(days) |->
        [date |-> days[i].date, totalClicks |-> days[i].totalClicks]]

\* C15: with the custom range inactive the trend series is
\* monthly.dailyBreakdown for thisMonth with monthly present; otherwise the
\* whole weekly.dailyBreakdown in its order when weekly is present, for
\* today and yesterday too; otherwise empty (getBreakdownsForRange, which
\* returns the series as date / total-clicks points, and the page's trendData).
C15_TrendSeriesByRange ==
    /\ IsBreakdownsCall
         => lib.result.trendData =
              IF lib.range = "thisMonth" /\ lib.monthly # Null
              THEN TrendSeries(lib.monthly.dailyBreakdown)
              ELSE IF lib.weekly # Null
              THEN TrendSeries(lib.weekly.dailyBreakdown)
              ELSE <<>>
    /\ ~CustomActive
         => trendData =
              IF selectedRange = "thisMonth" /\ monthly # Null
              THEN monthly.dailyBreakdown
              ELSE IF weekly # Null THEN weekly.dailyBreakdown
              ELSE <<>>

\* The metric pair summary holds for a range
SummaryMetrics(s, range) ==
    CASE range = "today" -> s.today
      [] range = "yesterday" -> s.yesterday
      [] range = "thisWeek" -> s.thisWeek
      [] range = "thisMonth" -> s.thisMonth

\* C16: with summary present and the custom range inactive, the totals
\* resolved for a range are summary's metric pair for that same range
\* (getSummaryForRange: clicks and uniqueUrls; the page: total clicks),
\* whatever weekly and monthly hold.
C16_TotalsFromSummary ==
    /\ (lib.fn = "getSummaryForRange" /\ lib.summary # Null)
         => /\ lib.result.clicks = SummaryMetrics(lib.summary, lib.range).clicks
            /\ lib.result.uniqueUrls =
                 SummaryMetrics(lib.summary, lib.range).uniqueUrls
    /\ (summary # Null /\ ~CustomActive)
         => /\ totalClicksForSelectedRange =
                 SummaryMetrics(summary, selectedRange).clicks
            /\ \A r \in TimeRange, w \in ServedWeekly \cup {Null},
                  m \in ServedMonthly \cup {Null} :
                 totalClicksOf([usingRange |-> usingRange, rangeData |-> rangeData,
                                summary |-> summary, weekly |-> w, monthly |-> m,
                                selectedRange |-> r, todayISO |-> todayISO,
                                yesterdayISO |-> yesterdayISO])
                   = SummaryMetrics(summary, r).clicks

C16_Witness ==
    /\ summary # Null
    /\ ~CustomActive
    /\ selectedRange = "thisWeek"
    /\ weekly # Null
    /\ weekly.totalClicks # summary.thisWeek.clicks
    /\ totalClicksForSelectedRange = summary.thisWeek.clicks

\* C17: for today and yesterday the resolved top-performer list does not
\* depend on summary.  getBreakdownsForRange returns the same list for every
\* summary argument, null included; on the page, where summary is always
\* present once today or yesterday is selected, topJobs is the same for
\* every summary the page can hold.
C17_NoSummaryOverrideOnDayRanges ==
    /\ (IsBreakdownsCall /\ lib.range \in {"today", "yesterday"})
         => \A s \in SummaryArgs :
              getBreakdownsForRange(lib.weekly, lib.monthly, s, lib.range,
                                    lib.now).topPerformers
                = lib.result.topPerformers
    /\ (selectedRange \in {"today", "yesterday"} /\ ~CustomActive)
         => /\ summary # Null
            /\ \A s \in Summaries :
                 topJobsOf([usingRange |-> usingRange, rangeData |-> rangeData,
                            summary |-> s, weekly |-> weekly,
                            monthly |-> monthly,
                            selectedRange |-> selectedRange,
                            todayISO |-> todayISO,
                            yesterdayISO |-> yesterdayISO])
                   = topJobs

C17_Witness ==
    /\ IsBreakdownsCall
    /\ lib.range = "yesterday"
    /\ lib.summary # Null
    /\ lib.summary.thisWeek.topPerformers = TopS
    /\ lib.weekly # Null
    /\ lib.weekly.topPerformers = TopA
    /\ lib.weekly.dailyBreakdown = DaysEarly
    /\ lib.result.topPerformers = TopA

\* C18: for thisWeek (resp. thisMonth) with summary present and its thisWeek
\* (resp. thisMonth) topPerformers list empty, the resolved top-performer
\* list is the one derived from weekly (resp. monthly), in
\* getBreakdownsForRange and on the page with the custom range inactive.
C18_OverrideOnlyWhenNonEmpty ==
    /\ (IsBreakdownsCall /\ lib.summary # Null /\ lib.range = "thisWeek")
         => (lib.summary.thisWeek.topPerformers = <<>>
               => lib.result.topPerformers =
                    IF lib.weekly # Null THEN lib.weekly.topPerformers ELSE <<>>)
    /\ (IsBreakdownsCall /\ lib.summary # Null /\ lib.range = "thisMonth")
         => (lib.summary.thisMonth.topPerformers = <<>>
               => lib.result.topPerformers =
                    IF lib.monthly # Null THEN lib.monthly.topPerformers
                    ELSE IF lib.weekly # Null THEN lib.weekly.topPerformers
                    ELSE <<>>)
    /\ (selectedRange = "thisWeek" /\ summary # Null /\ ~CustomActive)
         => (summary.thisWeek.topPerformers = <<>>
               => topJobs =
                    IF weekly # Null THEN OrEmptyList(weekly.topPerformers)
                    ELSE <<>>)
    /\ (selectedRange = "thisMonth" /\ summary # Null /\ ~CustomActive)
         => (summary.thisMonth.topPerformers = <<>>
               => topJobs =
                    IF monthly # Null THEN OrEmptyList(monthly.topPerformers)
                    ELSE IF weekly # Null THEN OrEmptyList(weekly.topPerformers)
                    ELSE <<>>)

\* C19: when the user has cleared the custom range or clicked a range card
\* while a custom-range fetch was in flight, the completion of that fetch
\* changes neither the custom-range dataset nor usingRange.
C19_StaleRangeFetchIgnored ==
    [][\A resp \in Responses(ServedRanges) :
         (RangeFetchSettles(resp) /\ rangeFetch.superseded)
           => UNCHANGED <<rangeData, usingRange>>]_vars

\* C20: while the custom range is active (usingRange), SummaryCards renders
\* no card with the active style.
C20_NoCardEmphasisWhileActive == usingRange => ActiveCards = {}

\* The messages handleApplyRange sets when its fetch fails
FetchErrors ==
    {ErrorMessage("Could not load range data. Please try again."),
     ErrorMessage("Range request failed.")}

\* C21: the message left by a failed custom-range fetch stays set until the
\* next apply attempt starts or a range card is selected, and is no longer
\* set after either of those two events.
C21_RangeErrorLifetime ==
    [][(rangeError \in FetchErrors)
         => (/\ HandleApplyRange => (rangeError' \notin FetchErrors)
             /\ (\E r \in TimeRange : OnSelectRange(r))
                  => (rangeError' \notin FetchErrors)
             /\ (~HandleApplyRange /\ ~(\E r \in TimeRange : OnSelectRange(r)))
                  => (rangeError' = rangeError))]_vars

\* An initial request that failed on its own account: no response, a body
\* that does not parse, or success = false
InitialFailed(resp) ==
    \/ resp.net = "error"
    \/ ~resp.body.json
    \/ ~resp.body.success

\* C22: a failed fetch leaves the prior value of its slot untouched; a
\* custom-range dataset already held is still held after a new custom-range
\* fetch fails.
C22_FailedFetchKeepsPriorValue ==
    [][/\ (initialFetch = "pending" /\ initialFetch' = "done")
            => \A rs \in Responses(ServedSummaries),
                  rw \in Responses(ServedWeekly),
                  rm \in Responses(ServedMonthly) :
                 FetchAllSettles(rs, rw, rm)
                   => /\ InitialFailed(rs) => summary' = summary
                      /\ InitialFailed(rw) => weekly' = weekly
                      /\ InitialFailed(rm) => monthly' = monthly
       /\ \A resp \in Responses(ServedRanges) :
            (RangeFetchSettles(resp) /\ FetchFailed(resp))
              => rangeData' = rangeData]_vars

\* C23: with the custom range inactive, for thisMonth with monthly absent
\* and weekly present the location and job-title breakdowns are weekly's
\* maps whatever summary.thisMonth carries, and for today, yesterday or
\* thisWeek with weekly absent they are empty even when monthly is present
\* (getBreakdownsForRange and the page).
C23_BreakdownMapsSource ==
    /\ (IsBreakdownsCall /\ lib.range = "thisMonth" /\ lib.monthly = Null
          /\ lib.weekly # Null)
         => /\ lib.result.locationBreakdown = lib.weekly.locationBreakdown
            /\ lib.result.jobTitleBreakdown = lib.weekly.jobTitleBreakdown
    /\ (IsBreakdownsCall /\ lib.range # "thisMonth" /\ lib.weekly = Null)
         => /\ lib.result.locationBreakdown = {}
            /\ lib.result.jobTitleBreakdown = {}
    /\ (~CustomActive /\ selectedRange = "thisMonth" /\ monthly = Null
          /\ weekly # Null)
         => /\ locationBreakdown = weekly.locationBreakdown
            /\ jobCategoryBreakdown = weekly.jobTitleBreakdown
    /\ (~CustomActive /\ selectedRange # "thisMonth" /\ weekly = Null)
         => /\ locationBreakdown = {}
            /\ jobCategoryBreakdown = {}

\* C24: a topPerformers field missing in a present weekly, monthly or
\* custom-range dataset resolves to the empty list, never to an undefined
\* value: no resolved top-performer list is undefined, in
\* getBreakdownsForRange and in the page's topJobs.
C24_MissingFieldResolvesEmpty ==
    /\ IsBreakdownsCall => lib.result.topPerformers # UndefinedList
    /\ topJobs # UndefinedList
    /\ (CustomActive /\ rangeData.topPerformers = UndefinedList)
         => topJobs = <<>>

\* C25: once the initial load has settled, the dashboard view is shown
\* whenever at least one usable dataset is held (summary, weekly, monthly or
\* an active custom range).
C25_RendersAnySubset ==
    (/\ ~loading
     /\ \/ summary # Null
        \/ weekly # Null
        \/ monthly # Null
        \/ CustomActive)
      => DashboardShown

\* C26: applying a custom range (validation, success or failure) and
\* clearing it never change selectedRange, so after Clear the view is
\* resolved for the range card last selected; only a click on a range card
\* changes selectedRange.
C26_OnlyCardsChangeSelection ==
    [][/\ (\/ HandleApplyRange
           \/ HandleClearRange
           \/ \E resp \in Responses(ServedRanges) : RangeFetchSettles(resp))
            => selectedRange' = selectedRange
       /\ HandleClearRange => ~usingRange' /\ rangeData' = Null
       /\ selectedRange' # selectedRange
            => \E r \in TimeRange : OnSelectRange(r) /\ selectedRange' = r]_vars

C26_Witness ==
    /\ CustomActive
    /\ selectedRange = "yesterday"
    /\ rangeFetch.st = "inflight"
    /\ rangeError = Null

\* C27: in every reachable state usingRange = true implies that a
\* custom-range dataset is held; no step raises usingRange without storing a
\* dataset, and no step drops the dataset while leaving usingRange true.
C27_ActiveHoldsDataset ==
    [][/\ usingRange => rangeData # Null
       /\ usingRange' => rangeData' # Null
       /\ (~usingRange /\ usingRange') => rangeData' # Null
       /\ (rangeData # Null /\ rangeData' = Null) => ~usingRange']_vars

C27_Witness ==
    /\ usingRange
    /\ rangeData = Rollup(UndefinedList, DaysWeek)
    /\ rangeFetch = NoFetch

\* C28: once the three initial requests have settled, loading is false,
\* whatever they returned; and rangeLoading is true exactly while a range
\* fetch is in flight, so it is false again once that fetch has settled, on
\* success and on every failure path.
C28_LoadingFlagsLowered ==
    /\ initialFetch = "done" => ~loading
    /\ initialFetch = "pending" => loading
    /\ rangeLoading <=> rangeFetch.st = "inflight"

C28_Witness ==
    /\ initialFetch = "done"
    /\ ~loading
    /\ summary = Null
    /\ weekly = Null
    /\ monthly = Null
    /\ rangeFetch = NoFetch
    /\ ~rangeLoading
    /\ rangeError = ErrorMessage("Could not load range data. Please try again.")

=============================================================================
